---- MODULE Spec2Model ----
(***************************************************************************)
(* Fluent playground service (src/src/main.rs): an Iron HTTP server that   *)
(* stores and fetches playground snippets as GitHub gists.                 *)
(*                                                                         *)
(* Text is modelled as a sequence of one-character strings, so that the    *)
(* JSON conversions are computed (serialised, parsed) and not assumed.     *)
(* A JSON value is a tagged tuple:                                         *)
(*   <<"null">>  <<"bool", b>>  <<"num", n>>  <<"str", chars>>             *)
(*   <<"arr", values>>  <<"obj", pairs sorted by key, keys distinct>>      *)
(* An Option is a sequence of length 0 (None) or 1 (Some).                 *)
(***************************************************************************)
EXTENDS Integers, Sequences, FiniteSets, TLC

\* ------------------------------------------------------------------ bounds
\* Largest number used in a JSON value.
MaxNum == 10
\* Nesting depth of the JSON values a snippet's variables/setup range over.
MaxDepth == 1
\* Number of records the provider may create in one run.
MaxCreated == 1

\* -------------------------------------------------------------- characters
QUOTE == "\""
BSLASH == "\\"
NL == "\n"

\* The characters of the model in byte order (String's Ord is bytewise).
Alphabet ==
    << NL, " ", QUOTE, ",", "0", "1", "2", "3", "4", "5", "6", "7", "8", "9",
       ":", "=", "E", "[", BSLASH, "]", "a", "b", "c", "d", "e", "f", "g", "h", "i",
       "j", "k", "l", "m", "n", "o", "p", "q", "r", "s", "t", "u", "v", "w",
       "x", "y", "z", "{", "}" >>

Code(c) == CHOOSE i \in 1..Len(Alphabet) : Alphabet[i] = c

Digits == <<"0", "1", "2", "3", "4", "5", "6", "7", "8", "9">>

IsDigit(c) == \E i \in 1..10 : Digits[i] = c

DigitVal(c) == (CHOOSE i \in 1..10 : Digits[i] = c) - 1

Whitespace == {" ", NL}

None == <<>>

Some(x) == <<x>>

\* Lexicographic bytewise order on strings.
RECURSIVE StrLess(_, _)
StrLess(a, b) ==
    IF b = <<>> THEN FALSE
    ELSE IF a = <<>> THEN TRUE
    ELSE IF a[1] # b[1] THEN Code(a[1]) < Code(b[1])
    ELSE StrLess(Tail(a), Tail(b))

\* -------------------------------------------------------------- JSON values
JNull == <<"null">>

JBool(b) == <<"bool", b>>

JNum(n) == <<"num", n>>

JStr(s) == <<"str", s>>

JArr(xs) == <<"arr", xs>>

JObj(ps) == <<"obj", ps>>

\* serde_json::Map (a BTreeMap): insert keeps the keys sorted and distinct, a
\* later value for a key replaces the earlier one.
RECURSIVE MapInsert(_, _, _)
MapInsert(m, k, v) ==
    IF m = <<>> THEN << <<k, v>> >>
    ELSE IF m[1][1] = k THEN << <<k, v>> >> \o Tail(m)
    ELSE IF StrLess(k, m[1][1]) THEN << <<k, v>> >> \o m
    ELSE <<m[1]>> \o MapInsert(Tail(m), k, v)

RECURSIVE MapFromPairs(_)
MapFromPairs(ps) ==
    IF ps = <<>> THEN <<>>
    ELSE LET n == Len(ps)
         IN  MapInsert(MapFromPairs(SubSeq(ps, 1, n - 1)), ps[n][1], ps[n][2])

\* ------------------------------------------------ serde_json::ser::to_string
RECURSIVE SerNat(_)
SerNat(n) ==
    IF n < 10 THEN <<Digits[n + 1]>>
    ELSE SerNat(n \div 10) \o <<Digits[(n % 10) + 1]>>

RECURSIVE EscapeStr(_)
EscapeStr(s) ==
    IF s = <<>> THEN <<>>
    ELSE LET c == s[1]
             e == IF c = QUOTE THEN <<BSLASH, QUOTE>>
                  ELSE IF c = BSLASH THEN <<BSLASH, BSLASH>>
                  ELSE IF c = NL THEN <<BSLASH, "n">>
                  ELSE <<c>>
         IN  e \o EscapeStr(Tail(s))

SerString(s) == <<QUOTE>> \o EscapeStr(s) \o <<QUOTE>>

RECURSIVE SerValue(_)
RECURSIVE SerElems(_)
RECURSIVE SerMembers(_)
SerElems(xs) ==
    IF xs = <<>> THEN <<>>
    ELSE IF Len(xs) = 1 THEN SerValue(xs[1])
    ELSE SerValue(xs[1]) \o <<",">> \o SerElems(Tail(xs))

SerMembers(ps) ==
    IF ps = <<>> THEN <<>>
    ELSE SerString(ps[1][1]) \o <<":">> \o SerValue(ps[1][2])
         \o (IF Len(ps) = 1 THEN <<>> ELSE <<",">> \o SerMembers(Tail(ps)))

SerValue(v) ==
    CASE v[1] = "null" -> <<"n", "u", "l", "l">>
      [] v[1] = "bool" -> IF v[2] THEN <<"t", "r", "u", "e">>
                          ELSE <<"f", "a", "l", "s", "e">>
      [] v[1] = "num"  -> SerNat(v[2])
      [] v[1] = "str"  -> SerString(v[2])
      [] v[1] = "arr"  -> <<"[">> \o SerElems(v[2]) \o <<"]">>
      [] v[1] = "obj"  -> <<"{">> \o SerMembers(v[2]) \o <<"}">>

\* --------------------------------------------------- serde_json::from_str
ParseFail == [ok |-> FALSE, v |-> JNull, i |-> 0]

ParseOk(v, i) == [ok |-> TRUE, v |-> v, i |-> i]

RECURSIVE SkipWs(_, _)
SkipWs(s, i) ==
    IF i <= Len(s) /\ s[i] \in Whitespace THEN SkipWs(s, i + 1) ELSE i

ParseLit(s, i, lit, v) ==
    IF i + Len(lit) - 1 <= Len(s) /\ SubSeq(s, i, i + Len(lit) - 1) = lit
    THEN ParseOk(v, i + Len(lit))
    ELSE ParseFail

\* The characters of a string after its opening quote, up to the closing one.
RECURSIVE ParseChars(_, _, _)
ParseChars(s, j, acc) ==
    IF j > Len(s) THEN ParseFail
    ELSE IF s[j] = QUOTE THEN ParseOk(acc, j + 1)
    ELSE IF s[j] = NL THEN ParseFail
    ELSE IF s[j] = BSLASH THEN
        IF j + 1 > Len(s) THEN ParseFail
        ELSE IF s[j + 1] = QUOTE THEN ParseChars(s, j + 2, Append(acc, QUOTE))
        ELSE IF s[j + 1] = BSLASH THEN ParseChars(s, j + 2, Append(acc, BSLASH))
        ELSE IF s[j + 1] = "n" THEN ParseChars(s, j + 2, Append(acc, NL))
        ELSE ParseFail
    ELSE ParseChars(s, j + 1, Append(acc, s[j]))

RECURSIVE ParseDigits(_, _, _)
ParseDigits(s, j, acc) ==
    IF j <= Len(s) /\ IsDigit(s[j])
    THEN ParseDigits(s, j + 1, 10 * acc + DigitVal(s[j]))
    ELSE ParseOk(JNum(acc), j)

\* A number starts with a digit; a leading 0 is followed by no digit.
ParseNumber(s, i) ==
    IF s[i] = "0"
    THEN IF i + 1 <= Len(s) /\ IsDigit(s[i + 1]) THEN ParseFail
         ELSE ParseOk(JNum(0), i + 1)
    ELSE ParseDigits(s, i, 0)

\* The parse result r of a string, array or object body as a JSON value.
AsStr(r) == IF r.ok THEN ParseOk(JStr(r.v), r.i) ELSE ParseFail

AsArr(r) == IF r.ok THEN ParseOk(JArr(r.v), r.i) ELSE ParseFail

AsObj(r) == IF r.ok THEN ParseOk(JObj(MapFromPairs(r.v)), r.i) ELSE ParseFail

RECURSIVE ParseValue(_, _)
RECURSIVE ParseElems(_, _, _)
RECURSIVE ParseMembers(_, _, _)
\* After the elements acc, at position k: "," and more elements, or "]".
ElemsNext(s, k, acc) ==
    IF k > Len(s) THEN ParseFail
    ELSE IF s[k] = "," THEN ParseElems(s, SkipWs(s, k + 1), acc)
    ELSE IF s[k] = "]" THEN ParseOk(acc, k + 1)
    ELSE ParseFail

\* The parse result r of one element joins the elements acc.
ElemsWith(s, r, acc) ==
    IF ~r.ok THEN ParseFail ELSE ElemsNext(s, SkipWs(s, r.i), Append(acc, r.v))

\* The elements of an array from position j (after "[" and whitespace, not at
\* "]"); yields the sequence of values and the position after "]".
ParseElems(s, j, acc) == ElemsWith(s, ParseValue(s, j), acc)

\* After the members acc, at position k: "," and more members, or "}".
MembersNext(s, k, acc) ==
    IF k > Len(s) THEN ParseFail
    ELSE IF s[k] = "," THEN ParseMembers(s, SkipWs(s, k + 1), acc)
    ELSE IF s[k] = "}" THEN ParseOk(acc, k + 1)
    ELSE ParseFail

\* The parse result r of the value of `key` joins the members acc.
MemberWith(s, key, r, acc) ==
    IF ~r.ok THEN ParseFail
    ELSE MembersNext(s, SkipWs(s, r.i), Append(acc, <<key, r.v>>))

\* After `key`, at position c: ":" and the value.
MemberColon(s, key, c, acc) ==
    IF c > Len(s) \/ s[c] # ":" THEN ParseFail
    ELSE MemberWith(s, key, ParseValue(s, SkipWs(s, c + 1)), acc)

\* The parse result key of a member's name.
MemberKey(s, key, acc) ==
    IF ~key.ok THEN ParseFail ELSE MemberColon(s, key.v, SkipWs(s, key.i), acc)

\* The members of an object from position j (after "{" and whitespace, not at
\* "}"); yields the <<key, value>> pairs in input order and the position
\* after "}".
ParseMembers(s, j, acc) ==
    IF j > Len(s) \/ s[j] # QUOTE THEN ParseFail
    ELSE MemberKey(s, ParseChars(s, j + 1, <<>>), acc)

\* An array whose "[" is followed, after whitespace, by position j.
ArrayFrom(s, j) ==
    IF j > Len(s) THEN ParseFail
    ELSE IF s[j] = "]" THEN ParseOk(<<>>, j + 1)
    ELSE ParseElems(s, j, <<>>)

ParseArray(s, i) == ArrayFrom(s, SkipWs(s, i + 1))

\* An object whose "{" is followed, after whitespace, by position j.
ObjectFrom(s, j) ==
    IF j > Len(s) THEN ParseFail
    ELSE IF s[j] = "}" THEN ParseOk(<<>>, j + 1)
    ELSE ParseMembers(s, j, <<>>)

ParseObject(s, i) == ObjectFrom(s, SkipWs(s, i + 1))

\* One JSON value at position i (whitespace already skipped).
ParseValue(s, i) ==
    IF i > Len(s) THEN ParseFail
    ELSE IF s[i] = "n" THEN ParseLit(s, i, <<"n", "u", "l", "l">>, JNull)
    ELSE IF s[i] = "t" THEN ParseLit(s, i, <<"t", "r", "u", "e">>, JBool(TRUE))
    ELSE IF s[i] = "f" THEN ParseLit(s, i, <<"f", "a", "l", "s", "e">>, JBool(FALSE))
    ELSE IF s[i] = QUOTE THEN AsStr(ParseChars(s, i + 1, <<>>))
    ELSE IF IsDigit(s[i]) THEN ParseNumber(s, i)
    ELSE IF s[i] = "[" THEN AsArr(ParseArray(s, i))
    ELSE IF s[i] = "{" THEN AsObj(ParseObject(s, i))
    ELSE ParseFail

\* The parse result r of a document s counts when only whitespace follows it.
Complete(s, r) == r.ok /\ SkipWs(s, r.i) > Len(s)

FromStrResult(s, r) ==
    IF Complete(s, r) THEN [ok |-> TRUE, v |-> r.v] ELSE [ok |-> FALSE, v |-> JNull]

\* serde_json::from_str::<Value>: one value, then only whitespace.
\* Result: [ok, v].
FromStrValue(s) == FromStrResult(s, ParseValue(s, SkipWs(s, 1)))

\* ------------------------------------------------------------------- data
\* File names of a snippet's gist (main.rs:108-110, 119, 126, 133).
PLAYGROUND_FTL == "playground.ftl"

PLAYGROUND_JSON == "playground.json"

SETUP_JSON == "setup.json"

EntryNames == {PLAYGROUND_FTL, PLAYGROUND_JSON, SETUP_JSON}

\* struct Playground { id: Option<String>, messages: String,
\*                     variables: Value, setup: Value }
Playground(id, messages, variables, setup) ==
    [id |-> id, messages |-> messages, variables |-> variables, setup |-> setup]

\* A panic: the line whose unwrap/expect fails and the entry name in scope
\* there ("-" when there is none).
Panic(line, entry) ==
    [ok |-> FALSE, val |-> <<>>, line |-> line, entry |-> entry]

Ok(v) == [ok |-> TRUE, val |-> v, line |-> 0, entry |-> "-"]

\* The spec's name for the failure raised at a panic site.
Condition(res) ==
    CASE res.ok -> "none"
      [] res.line = 76 \/ res.line = 88 -> "MissingAdapter"
      [] res.line = 83 \/ res.line = 96 -> "ProviderUnavailable"
      [] res.line = 92 -> "BadRequest"
      [] res.line = 101 -> "MissingField"
      [] res.line = 109 \/ res.line = 110 -> "MalformedContent"

\* get_file_content as it would be with unwrap_or_default(): a missing file
\* reads as the empty string.
get_file_content_or_default(gist, name) ==
    IF name \notin DOMAIN gist.files THEN Ok(<<>>)
    ELSE IF gist.files[name].content = None THEN Ok(<<>>)
    ELSE Ok(gist.files[name].content[1])

\* fn get_file_content(gist, name) -> &String:
\*     gist.files.get(name).unwrap().content.as_ref().unwrap()
get_file_content(gist, name) ==
    IF name \notin DOMAIN gist.files THEN Panic(101, name)
    ELSE IF gist.files[name].content = None THEN Panic(101, name)
    ELSE Ok(gist.files[name].content[1])

\* The unwrap of from_str's result as it would be with unwrap_or_default():
\* text that does not parse reads as null.
UnwrapParsedOrDefault(p, name, line) == IF p.ok THEN Ok(p.v) ELSE Ok(JNull)

\* serde_json::from_str(&get_file_content(&gist, name)).unwrap(), on the
\* outcome c of get_file_content and p of from_str.
UnwrapParsed(p, name, line) == IF p.ok THEN Ok(p.v) ELSE Panic(line, name)

ParseContent(c, name, line) ==
    IF ~c.ok THEN c ELSE UnwrapParsed(FromStrValue(c.val), name, line)

json_file(gist, name, line) == ParseContent(get_file_content(gist, name), name, line)

\* The struct literal of From<Gist>: its field expressions are evaluated in
\* the order written and the first panic among them ends the conversion.
PlaygroundLiteral(id, m, v, s) ==
    IF ~m.ok THEN m
    ELSE IF ~v.ok THEN v
    ELSE IF ~s.ok THEN s
    ELSE Ok(Playground(Some(id), m.val, v.val, s.val))

\* impl From<gists::Gist> for Playground.
Playground_from_Gist(gist) ==
    PlaygroundLiteral(gist.id,
                      get_file_content(gist, PLAYGROUND_FTL),
                      json_file(gist, PLAYGROUND_JSON, 109),
                      json_file(gist, SETUP_JSON, 110))

DESCRIPTION == "A Fluent Playground snippet"

\* The conversion with setup.json filled from playground.variables.
GistOptions_variables_twice(playground) ==
    LET files ==
            (PLAYGROUND_FTL :> [filename |-> None, content |-> playground.messages])
            @@ (PLAYGROUND_JSON :>
                    [filename |-> None, content |-> SerValue(playground.variables)])
            @@ (SETUP_JSON :>
                    [filename |-> None, content |-> SerValue(playground.variables)])
    IN  [description |-> Some(DESCRIPTION), public |-> Some(TRUE), files |-> files]

\* The conversion with the public flag left off.
GistOptions_private(playground) ==
    LET files ==
            (PLAYGROUND_FTL :> [filename |-> None, content |-> playground.messages])
            @@ (PLAYGROUND_JSON :>
                    [filename |-> None, content |-> SerValue(playground.variables)])
            @@ (SETUP_JSON :>
                    [filename |-> None, content |-> SerValue(playground.setup)])
    IN  [description |-> Some(DESCRIPTION), public |-> Some(FALSE), files |-> files]

\* impl From<Playground> for gists::GistOptions.
GistOptions_from_Playground(playground) ==
    LET files ==
            (PLAYGROUND_FTL :> [filename |-> None, content |-> playground.messages])
            @@ (PLAYGROUND_JSON :>
                    [filename |-> None, content |-> SerValue(playground.variables)])
            @@ (SETUP_JSON :>
                    [filename |-> None, content |-> SerValue(playground.setup)])
    IN  [description |-> Some(DESCRIPTION), public |-> Some(TRUE), files |-> files]

\* The provider's record of a created gist: the entries it was given, under
\* the identifier it assigns.
ProviderRecord(options, id) ==
    [id |-> id,
     description |-> options.description,
     public |-> options.public,
     files |-> [n \in DOMAIN options.files |->
                    [content |-> Some(options.files[n].content)]]]

\* -------------------------------------------------- request body -> struct
K_id == <<"i", "d">>

K_messages == <<"m", "e", "s", "s", "a", "g", "e", "s">>

K_variables == <<"v", "a", "r", "i", "a", "b", "l", "e", "s">>

K_setup == <<"s", "e", "t", "u", "p">>

FieldKeys == <<K_id, K_messages, K_variables, K_setup>>

\* Whether a JSON value deserializes into the field at position f of
\* Playground: Option<String>, String, Value, Value.
FieldAccepts(f, v) ==
    CASE f = 1 -> v[1] = "null" \/ v[1] = "str"
      [] f = 2 -> v[1] = "str"
      [] OTHER -> TRUE

\* visit_map as it would be with #[serde(default)] on the struct: a field
\* that was not given takes its default (the empty string, null).
DeserializeMapDefault(pairs) ==
    LET At(f) == {i \in 1..Len(pairs) : pairs[i][1] = FieldKeys[f]}
        Get(f) == pairs[CHOOSE i \in At(f) : TRUE][2]
    IN  IF \E f \in 1..4 : Cardinality(At(f)) > 1 THEN Panic(92, "-")
        ELSE IF \E f \in 1..4 : At(f) # {} /\ ~FieldAccepts(f, Get(f)) THEN Panic(92, "-")
        ELSE Ok(Playground(
                 IF At(1) = {} \/ Get(1)[1] = "null" THEN None ELSE Some(Get(1)[2]),
                 IF At(2) = {} THEN <<>> ELSE Get(2)[2],
                 IF At(3) = {} THEN JNull ELSE Get(3),
                 IF At(4) = {} THEN JNull ELSE Get(4)))

\* The derived visit_map: every key is read in input order; a field given
\* twice or with the wrong type is an error, an unknown key is skipped, and at
\* the end messages, variables and setup must have been given (a missing
\* Option field is None).
DeserializeMap(pairs) ==
    LET At(f) == {i \in 1..Len(pairs) : pairs[i][1] = FieldKeys[f]}
        Get(f) == pairs[CHOOSE i \in At(f) : TRUE][2]
    IN  IF \E f \in 1..4 : Cardinality(At(f)) > 1 THEN Panic(92, "-")
        ELSE IF \E f \in 1..4 : At(f) # {} /\ ~FieldAccepts(f, Get(f)) THEN Panic(92, "-")
        ELSE IF \E f \in 2..4 : At(f) = {} THEN Panic(92, "-")
        ELSE Ok(Playground(
                 IF At(1) = {} \/ Get(1)[1] = "null" THEN None ELSE Some(Get(1)[2]),
                 Get(2)[2], Get(3), Get(4)))

\* The derived visit_seq: the four fields in declaration order, no more.
DeserializeSeq(elems) ==
    IF Len(elems) # 4 THEN Panic(92, "-")
    ELSE IF \E f \in 1..4 : ~FieldAccepts(f, elems[f]) THEN Panic(92, "-")
    ELSE Ok(Playground(
             IF elems[1][1] = "null" THEN None ELSE Some(elems[1][2]),
             elems[2][2], elems[3], elems[4]))

\* The parse result r of the document: a map or a sequence to visit.
Visit(payload, r, isMap) ==
    IF ~Complete(payload, r) THEN Panic(92, "-")
    ELSE IF isMap THEN DeserializeMap(r.v)
    ELSE DeserializeSeq(r.v)

\* The document that starts at position i of the payload.
DocumentAt(payload, i) ==
    IF i > Len(payload) THEN Panic(92, "-")
    ELSE IF payload[i] = "{" THEN Visit(payload, ParseObject(payload, i), TRUE)
    ELSE IF payload[i] = "[" THEN Visit(payload, ParseArray(payload, i), FALSE)
    ELSE Panic(92, "-")

\* serde_json::from_str::<Playground>(&payload).unwrap()  (main.rs:92)
Playground_from_str(payload) == DocumentAt(payload, SkipWs(payload, 1))

\* ------------------------------------------------------------ json_response
\* #[derive(Serialize)] struct Playground: the fields in declaration order.
PlaygroundJson(p) ==
    << <<K_id, IF p.id = None THEN JNull ELSE JStr(p.id[1])>>,
       <<K_messages, JStr(p.messages)>>,
       <<K_variables, p.variables>>,
       <<K_setup, p.setup>> >>

PKG_NAME == <<"p", "l", "a", "y", "g", "r", "o", "u", "n", "d">>

PKG_VERSION == <<"0">>

\* #[derive(Serialize)] struct Index { name, version } as index_get builds it.
IndexJson ==
    << << <<"n", "a", "m", "e">>, JStr(PKG_NAME) >>,
       << <<"v", "e", "r", "s", "i", "o", "n">>, JStr(PKG_VERSION) >> >>

\* A payload handed to json_response: the members of the serialized struct,
\* or a value whose Serialize implementation reports an error.
Payload(members) == [serializable |-> TRUE, members |-> members]

Unserializable == [serializable |-> FALSE, members |-> <<>>]

\* serde_json::ser::to_string(&response)
to_string(response) ==
    IF response.serializable
    THEN [ok |-> TRUE, body |-> <<"{">> \o SerMembers(response.members) \o <<"}">>]
    ELSE [ok |-> FALSE, body |-> <<>>]

ERROR_BODY ==
    <<"{", QUOTE, "e", "r", "r", "o", "r", QUOTE, ":", " ", QUOTE,
      "E", "r", "r", "o", "r", " ", "s", "e", "r", "i", "a", "l", "i", "z", "i",
      "n", "g", " ", "r", "e", "s", "p", "o", "n", "s", "e", QUOTE, "}">>

JSON == "application/json"

Response(status, content_type, body) ==
    [status |-> status, content_type |-> content_type, body |-> body]

\* The match as it would be with the error arm left to unwrap().
ResponseOfUnwrap(r) ==
    IF r.ok THEN Ok(Response(200, JSON, r.body))
    ELSE Panic(148, "-")

\* The two arms of json_response's match on to_string's result.
ResponseOf(r) ==
    IF r.ok THEN Ok(Response(200, JSON, r.body))
    ELSE Ok(Response(500, JSON, ERROR_BODY))

\* fn json_response(response: impl Serialize) -> IronResult<Response>:
\* always Ok(Response).
json_response(response) == ResponseOf(to_string(response))

\* ------------------------------------------------------------------ inputs
Strs == { <<>>, <<"a", QUOTE>>, <<BSLASH, NL>> }

Keys == { <<"a">>, <<"b", QUOTE>> }

Scalars ==
    {JNull, JBool(TRUE), JBool(FALSE), JNum(0), JNum(MaxNum)}
    \cup {JStr(s) : s \in Strs}

\* A few values to pair up in two-element arrays and two-member objects.
Pairable == {JNull, JNum(MaxNum)}

\* The JSON values of nesting depth at most d.
RECURSIVE JsonValues(_)
JsonValues(d) ==
    IF d = 0 THEN Scalars
    ELSE LET S == JsonValues(d - 1)
         IN  S \cup {JArr(<<>>), JObj(<<>>)}
               \cup {JArr(<<x>>) : x \in S}
               \cup {JArr(<<x, y>>) : x \in Pairable, y \in Pairable}
               \cup {JObj(<< <<k, x>> >>) : k \in Keys, x \in S}
               \cup {JObj(<< << <<"a">>, x >>, << <<"b", QUOTE>>, y >> >>) :
                        x \in Pairable, y \in Pairable}

Values == JsonValues(MaxDepth)

Messages == { <<>>, <<"a", " ", "=", " ", "b">>, <<"{", NL, QUOTE>> }

Ids == { <<"g", "1">>, <<"g", "2">> }

\* Snippets: one JSON field ranges over every value while the other ranges
\* over the scalars, in both arrangements.
Snippets ==
    {Playground(i, m, v, s) :
        i \in {None} \cup {Some(x) : x \in Ids}, m \in Messages,
        v \in Values, s \in Scalars}
    \cup {Playground(None, m, v, s) :
        m \in Messages, v \in Scalars, s \in Values}

ValidJsonTexts ==
    {SerValue(v) : v \in {JObj(<<>>), JArr(<<JNum(MaxNum)>>), JStr(<<"a", QUOTE>>)}}
    \cup { <<" ", "{", NL, "}", " ">> }

InvalidJsonTexts ==
    { <<>>, <<"{">>, <<"t", "r", "u">>, <<"[", "1", ",", "]">>, <<"0", "1">>,
      <<"1", " ", "1">>, <<QUOTE, NL, QUOTE>>, <<"{", "a", ":", "1", "}">>,
      <<QUOTE, BSLASH, "x", QUOTE>> }

\* What a record may hold for one entry: nothing, a file without content, or
\* a file with some text.
Absent == <<"absent", "absent">>

JsonEntryStates ==
    {Absent, None} \cup {Some(c) : c \in ValidJsonTexts \cup InvalidJsonTexts}

FtlEntryStates == {Absent, None} \cup {Some(m) : m \in Messages}

\* The record with the given state of each of the three entries.
GistWith(id, ftl, json, setup) ==
    LET st == (PLAYGROUND_FTL :> ftl) @@ (PLAYGROUND_JSON :> json) @@ (SETUP_JSON :> setup)
    IN  [id |-> id,
         description |-> None,
         public |-> Some(TRUE),
         files |-> [n \in {e \in EntryNames : st[e] # Absent} |-> [content |-> st[n]]]]

GistInputs ==
    {GistWith(<<"g", "1">>, f, j, s) :
        f \in FtlEntryStates, j \in JsonEntryStates, s \in JsonEntryStates}

\* ----------------------------------------------------------------- startup
\* Number of requests the server may be handling at the same time.
MaxInFlight == 2

Slots == 1..MaxInFlight

\* let gists = github.gists();  built once from the token (main.rs:23-29).
GistsClient == [agent |-> "playground", credentials |-> "GITHUB_API_TOKEN"]

TRUSTED_ORIGIN == "https://projectfluent.org"

\* The CorsMiddleware value with Method::Post left out of allowed_methods.
CorsConfigGetOnly ==
    [allowed_origins   |-> {TRUSTED_ORIGIN},
     allowed_headers   |-> {"Content-Type"},
     allowed_methods   |-> {"GET"},
     exposed_headers   |-> {},
     allow_credentials |-> FALSE,
     max_age_seconds   |-> 60 * 60,
     prefer_wildcard   |-> FALSE]

\* The CorsMiddleware value of main.rs:41-49.
CorsConfig ==
    [allowed_origins   |-> {TRUSTED_ORIGIN},
     allowed_headers   |-> {"Content-Type"},
     allowed_methods   |-> {"GET", "POST"},
     exposed_headers   |-> {},
     allow_credentials |-> FALSE,
     max_age_seconds   |-> 60 * 60,
     prefer_wildcard   |-> FALSE]

\* The routing table of main.rs:31-34.
Routes ==
    { [method |-> "GET",  path |-> "/",          handler |-> "index_get"],
      [method |-> "GET",  path |-> "/gists/:id", handler |-> "playground_get"],
      [method |-> "POST", path |-> "/gists",     handler |-> "playground_create"] }

\* The chain as it would be with the CORS middleware outermost and the gist
\* client put in the request inside it.
ChainCorsOutermost ==
    [befores |-> <<>>,
     handler |-> <<"CorsMiddleware", "GistsMiddleware", "Router">>]

\* Chain::new(router) with link_before(GistsMiddleware) and
\* link_around(CorsMiddleware): the before middleware run first, then the
\* handler, which link_around has wrapped.
Chain ==
    [befores |-> <<"GistsMiddleware">>,
     handler |-> <<"CorsMiddleware", "Router">>]

\* The order in which a request passes through the chain.
Pipeline == Chain.befores \o Chain.handler

\* What the CORS middleware grants a request of the given Origin header
\* (None when the request has none): the configured policy for an allowed
\* origin, nothing otherwise.
CorsGrant(origin) ==
    IF origin # None /\ origin[1] \in CorsConfig.allowed_origins
    THEN Some([allow_origin      |-> origin[1],
               allow_methods     |-> CorsConfig.allowed_methods,
               allow_headers     |-> CorsConfig.allowed_headers,
               allow_credentials |-> CorsConfig.allow_credentials,
               max_age           |-> CorsConfig.max_age_seconds])
    ELSE None

\* ---------------------------------------------------------------- provider
UNKNOWN_ID == <<"x">>

\* Gists that exist at the provider before the service starts; anyone's gist
\* can be fetched by id, so not all of them are snippets.
ForeignGists ==
    LET ok == Some(SerValue(JObj(<<>>)))
    IN  { GistWith(<<"g", "1">>, Some(<<"a", " ", "=", " ", "b">>),
                   Some(SerValue(JArr(<<JNum(MaxNum)>>))), ok),
          GistWith(<<"g", "2">>, Some(<<>>), ok, Absent),
          GistWith(<<"g", "3">>, Some(<<>>), Some(<<"{">>), Absent) }

InitStore == [i \in {g.id : g \in ForeignGists} |-> CHOOSE g \in ForeignGists : g.id = i]

\* The identifier the provider assigns to its n-th new gist.
NewId(n) == <<"n">> \o SerNat(n)

\* ---------------------------------------------------------------- requests
\* Request bodies sent to POST /gists.
\* A snippet as the playground sends it: id null, fields in struct order.
GoodSnippetPlain ==
    Playground(None, <<"{", NL, QUOTE>>,
               JObj(<< << <<"a">>, JNum(MaxNum) >> >>), JArr(<<JNull>>))

GoodBodyPlain == SerValue(JObj(PlaygroundJson(GoodSnippetPlain)))

\* The client sends an id; the fields come in another order, with whitespace
\* around the object.
GoodSnippetWithId ==
    Playground(Some(<<"g", "1">>), <<>>, JNull, JStr(<<BSLASH, NL>>))

GoodBodyWithId ==
    <<" ">> \o SerValue(JObj(<< <<K_setup, JStr(<<BSLASH, NL>>)>>,
                               <<K_id, JStr(<<"g", "1">>)>>,
                               <<K_variables, JNull>>,
                               <<K_messages, JStr(<<>>)>> >>)) \o <<NL>>

GoodBodies == {GoodBodyPlain, GoodBodyWithId}

\* The members other than `key`.
RECURSIVE Without(_, _)
Without(members, key) ==
    IF members = <<>> THEN <<>>
    ELSE (IF members[1][1] = key THEN <<>> ELSE <<members[1]>>)
         \o Without(Tail(members), key)

\* The body of a snippet without the field `key`.
BodyWithout(key) ==
    SerValue(JObj(Without(PlaygroundJson(Playground(None, <<"a">>, JNull, JObj(<<>>))),
                          key)))

\* A body that ends in the middle of the object.
BadBodyCut ==
    SubSeq(SerValue(JObj(PlaygroundJson(Playground(None, <<>>, JNull, JNull)))), 1, 20)

\* A body that gives messages twice.
BadBodyTwice ==
    SerValue(JObj(PlaygroundJson(Playground(None, <<>>, JNull, JNull))
                  \o << <<K_messages, JStr(<<>>)>> >>))

\* Bodies that lack a required field.
IncompleteBodies == {BodyWithout(k) : k \in {K_messages, K_variables, K_setup}}

\* Bodies that are not JSON.
MalformedBodies == {BadBodyCut, <<>>}

BadBodies == IncompleteBodies \cup MalformedBodies \cup {BadBodyTwice}

Bodies == GoodBodies \cup BadBodies

Origins == {None, Some(TRUSTED_ORIGIN), Some("http://projectfluent.org")}

\* Slot 1 handles the request under observation, drawn from every input; the
\* other slots handle the traffic that runs beside it, drawn from fewer.
OriginsOf(r) == IF r = 1 THEN Origins ELSE {None}

BodiesOf(r) == IF r = 1 THEN Bodies ELSE {GoodBodyWithId, BadBodyCut}

Request(method, path, origin, id, body) ==
    [method |-> method, path |-> path, origin |-> origin, id |-> id, body |-> body]

\* Router: the route registered for a handler; a request reaches the handler
\* when its method and path are the route's.
RouteFor(handler) == CHOOSE rt \in Routes : rt.handler = handler

\* The gist ids a client may ask for, given the gists that exist.
FetchIds(gistIds) == gistIds \cup {UNKNOWN_ID}

\* ------------------------------------------------------------------- state
VARIABLES
    gists,      \* the gist client built at startup
    store,      \* the provider's gists, by id
    created,    \* how many gists the provider has created
    req,        \* per connection slot: the request being handled
    mapOp,      \* the Mapper operation last applied, with
    mapIn,      \*   its input and
    mapOut      \*   its output

vars == <<gists, store, created, req, mapOp, mapIn, mapOut>>

sysVars == <<gists, store, created, req>>

mapVars == <<mapOp, mapIn, mapOut>>

IdleSlot ==
    [pc       |-> "idle",
     request  |-> Request("-", "-", None, <<>>, <<>>),
     pos      |-> 0,
     stages   |-> <<>>,
     ext      |-> None,
     grant    |-> None,
     fetches  |-> 0,
     creates  |-> 0,
     sent     |-> None,
     got      |-> None,
     response |-> None,
     panic    |-> None]

Init ==
    /\ gists = GistsClient
    /\ store = InitStore
    /\ created = 0
    /\ req = [r \in Slots |-> IdleSlot]
    /\ mapOp = "none"
    /\ mapIn = <<>>
    /\ mapOut = <<>>

\* ---------------------------------------------------------------- handlers
\* fn index_get
index_get == json_response(Payload(IndexJson))

\* json_response(Playground::from(gist)), on the outcome p of the conversion.
Respond(p) == IF ~p.ok THEN p ELSE json_response(Payload(PlaygroundJson(p.val)))

\* playground_get after gists.get(id) has returned `outcome` (Ok(gist) or a
\* provider error): .expect("Unable to fetch gist"), then the conversion and
\* the response.
playground_get_finish(outcome) ==
    IF ~outcome.ok THEN Panic(83, "-") ELSE Respond(Playground_from_Gist(outcome.val))

\* gists::GistOptions::from(playground), on the outcome p of parsing the body.
MapParsed(p) == IF ~p.ok THEN p ELSE Ok(GistOptions_from_Playground(p.val))

\* playground_create up to the provider call: the body is parsed, then mapped.
playground_create_begin(payload) == MapParsed(Playground_from_str(payload))

\* playground_create after gists.create(..) has returned `outcome`.
playground_create_finish(outcome) ==
    IF ~outcome.ok THEN Panic(96, "-") ELSE Respond(Playground_from_Gist(outcome.val))

ProviderError == [ok |-> FALSE, val |-> <<>>, line |-> 0, entry |-> "-"]

\* The slot after its handler ended with `result`: a response, to which the
\* CORS middleware around the handler adds what it granted, or a panic that
\* unwinds through the chain and leaves no response.
Finish(slot, result) ==
    IF result.ok
    THEN [slot EXCEPT !.pc = "done",
                      !.response = Some([status       |-> result.val.status,
                                         content_type |-> result.val.content_type,
                                         body         |-> result.val.body,
                                         cors         |-> slot.grant])]
    ELSE [slot EXCEPT !.pc = "aborted",
                      !.panic = Some([line |-> result.line, entry |-> result.entry])]

AtStage(r, name) ==
    /\ req[r].pc = "chain"
    /\ req[r].pos <= Len(Pipeline)
    /\ Pipeline[req[r].pos] = name

\* ----------------------------------------------------------------- actions
\* A connection is accepted on a free slot and its request enters the chain.
\* What the request holds (origin, method and path, id, body) is an input,
\* drawn where the code first reads it.
Accept(r) ==
    /\ req[r].pc = "idle"
    /\ req' = [req EXCEPT ![r] = [IdleSlot EXCEPT !.pc = "chain", !.pos = 1]]
    /\ UNCHANGED <<gists, store, created, mapVars>>

\* GistsMiddleware::before: puts the gist client into req.extensions.
GistsBefore(r) ==
    /\ AtStage(r, "GistsMiddleware")
    /\ req' = [req EXCEPT ![r].ext = Some(gists),
                          ![r].stages = Append(@, "inject"),
                          ![r].pos = @ + 1]
    /\ UNCHANGED <<gists, store, created, mapVars>>

\* CorsMiddleware, on the way in: reads the Origin header, decides what it is
\* granted, then calls the handler it wraps.
CorsEnter(r) ==
    /\ AtStage(r, "CorsMiddleware")
    /\ \E origin \in OriginsOf(r) :
          req' = [req EXCEPT ![r].request.origin = origin,
                             ![r].grant = CorsGrant(origin),
                             ![r].stages = Append(@, "cors"),
                             ![r].pos = @ + 1]
    /\ UNCHANGED <<gists, store, created, mapVars>>

\* The slot r once the Router has matched its request to `handler`.
Dispatched(r, handler) ==
    [req[r] EXCEPT !.request.method = RouteFor(handler).method,
                   !.request.path = RouteFor(handler).path,
                   !.stages = Append(@, "dispatch"),
                   !.pos = @ + 1]

\* GET /
IndexGet(r) ==
    /\ AtStage(r, "Router")
    /\ req' = [req EXCEPT ![r] = Finish(Dispatched(r, "index_get"), index_get)]
    /\ UNCHANGED <<gists, store, created, mapVars>>

\* playground_get on the slot, up to the blocking gists.get(id):
\* req.extensions.get::<GistsMiddleware>().unwrap(), then the call.
GetBegin(slot) ==
    IF slot.ext = None THEN Finish(slot, Panic(76, "-"))
    ELSE [slot EXCEPT !.pc = "await_fetch", !.fetches = @ + 1]

\* GET /gists/:id
PlaygroundGet(r) ==
    /\ AtStage(r, "Router")
    /\ \E id \in FetchIds(DOMAIN store) :
          req' = [req EXCEPT ![r] =
                     GetBegin([Dispatched(r, "playground_get") EXCEPT !.request.id = id])]
    /\ UNCHANGED <<gists, store, created, mapVars>>

\* playground_get as it would be if a failed fetch were tried again.
PlaygroundGetReturnRetry(r) ==
    /\ req[r].pc = "await_fetch"
    /\ \E outcome \in {ProviderError}
                      \cup (IF req[r].request.id \in DOMAIN store
                            THEN {Ok(store[req[r].request.id])} ELSE {}) :
          req' = [req EXCEPT ![r] =
                     IF outcome.ok
                     THEN Finish([@ EXCEPT !.got = Some(outcome.val)],
                                 playground_get_finish(outcome))
                     ELSE [@ EXCEPT !.fetches = @ + 1]]
    /\ UNCHANGED <<gists, store, created, mapVars>>

\* gists.get(id) returns: the gist, or an error (no such gist, or the
\* provider is unavailable); playground_get runs to its end.
PlaygroundGetReturn(r) ==
    /\ req[r].pc = "await_fetch"
    /\ \E outcome \in {ProviderError}
                      \cup (IF req[r].request.id \in DOMAIN store
                            THEN {Ok(store[req[r].request.id])} ELSE {}) :
          req' = [req EXCEPT ![r] =
                     Finish([@ EXCEPT !.got = IF outcome.ok THEN Some(outcome.val) ELSE None],
                            playground_get_finish(outcome))]
    /\ UNCHANGED <<gists, store, created, mapVars>>

\* playground_create on the slot, up to the blocking gists.create(..), with
\* `opts` the outcome of parsing and mapping the body.
CreateBegin(slot, opts) ==
    IF slot.ext = None THEN Finish(slot, Panic(88, "-"))
    ELSE IF ~opts.ok THEN Finish(slot, opts)
    ELSE [slot EXCEPT !.pc = "await_create",
                      !.creates = @ + 1,
                      !.sent = Some(opts.val)]

\* POST /gists
PlaygroundCreate(r) ==
    /\ AtStage(r, "Router")
    /\ \E body \in BodiesOf(r) :
          req' = [req EXCEPT ![r] =
                     CreateBegin([Dispatched(r, "playground_create")
                                      EXCEPT !.request.body = body],
                                 playground_create_begin(body))]
    /\ UNCHANGED <<gists, store, created, mapVars>>

\* gists.create(..) returns an error and nothing was stored.
PlaygroundCreateFails(r) ==
    /\ req[r].pc = "await_create"
    /\ req' = [req EXCEPT ![r] = Finish(@, playground_create_finish(ProviderError))]
    /\ UNCHANGED <<gists, store, created, mapVars>>

\* gists.create(..) returns the provider's copy of the new gist.
PlaygroundCreateReturn(r) ==
    /\ req[r].pc = "await_create"
    /\ created < MaxCreated
    /\ \E gist \in {ProviderRecord(req[r].sent[1], NewId(created + 1))} :
          /\ store' = (gist.id :> gist) @@ store
          /\ created' = created + 1
          /\ req' = [req EXCEPT ![r] =
                        Finish([@ EXCEPT !.got = Some(gist)],
                               playground_create_finish(Ok(gist)))]
    /\ UNCHANGED <<gists, mapVars>>

\* The connection is closed and the slot is free again.
Close(r) ==
    /\ req[r].pc \in {"done", "aborted"}
    /\ req' = [req EXCEPT ![r] = IdleSlot]
    /\ UNCHANGED <<gists, store, created, mapVars>>

Next ==
    \E r \in Slots :
        \/ Accept(r)
        \/ GistsBefore(r)
        \/ CorsEnter(r)
        \/ IndexGet(r)
        \/ PlaygroundGet(r)
        \/ PlaygroundGetReturn(r)
        \/ PlaygroundCreate(r)
        \/ PlaygroundCreateFails(r)
        \/ PlaygroundCreateReturn(r)
        \/ Close(r)

Spec == Init /\ [][Next]_vars

\* ---------------------------------------------------- the Mapper on its own
\* Each behaviour applies one Mapper operation to one input.
\* toExternal on a snippet.
MapToExternal ==
    /\ mapOp = "none"
    /\ \E s \in Snippets :
          /\ mapOp' = "toExternal"
          /\ mapIn' = s
          /\ mapOut' = GistOptions_from_Playground(s)
    /\ UNCHANGED sysVars

\* fromExternal on a provider record.
MapFromExternal ==
    /\ mapOp = "none"
    /\ \E g \in GistInputs :
          /\ mapOp' = "fromExternal"
          /\ mapIn' = g
          /\ mapOut' = Playground_from_Gist(g)
    /\ UNCHANGED sysVars

\* fromExternal on the provider record that holds what toExternal produced.
MapRoundTrip ==
    /\ mapOp = "none"
    /\ \E s \in Snippets, i \in Ids :
          /\ mapOp' = "roundTrip"
          /\ mapIn' = s
          /\ mapOut' = Playground_from_Gist(
                           ProviderRecord(GistOptions_from_Playground(s), i))
    /\ UNCHANGED sysVars

NextMapper == MapToExternal \/ MapFromExternal \/ MapRoundTrip

SpecMapper == Init /\ [][NextMapper]_vars

\* ------------------------------------------------ properties of the Mapper
\* The entries in the order From<Gist> reads them.
EntryOrder == <<PLAYGROUND_FTL, PLAYGROUND_JSON, SETUP_JSON>>

JsonEntries == {PLAYGROUND_JSON, SETUP_JSON}

\* The record has no file of that name.
Lacks(g, e) == e \notin DOMAIN g.files

\* The record has a file of that name, with content.
HasContent(g, e) == ~Lacks(g, e) /\ g.files[e].content # None

\* A JSON-bearing entry whose content is not valid JSON.
BadJson(g, e) ==
    /\ e \in JsonEntries
    /\ HasContent(g, e)
    /\ g.files[e].content[1] \in InvalidJsonTexts

Fault(g, e) == ~HasContent(g, e) \/ BadJson(g, e)

\* The first entry, in reading order, that is missing or malformed.
FirstFault(g) ==
    EntryOrder[CHOOSE i \in 1..3 :
                  /\ Fault(g, EntryOrder[i])
                  /\ \A j \in 1..(i - 1) : ~Fault(g, EntryOrder[j])]

\* C1: round trip.  For every snippet s, fromExternal applied to the provider
\* record that holds exactly the entries toExternal(s) produced succeeds and
\* yields the messages, variables and setup of s; the id is not compared.
C1_RoundTrip ==
    mapOp = "roundTrip" =>
        /\ mapOut.ok
        /\ mapOut.val.messages = mapIn.messages
        /\ mapOut.val.variables = mapIn.variables
        /\ mapOut.val.setup = mapIn.setup

\* A round trip of a snippet whose texts need escaping, and whose id differs
\* from the one the record carries.
C1_Witness ==
    /\ mapOp = "roundTrip"
    /\ mapIn.id = None
    /\ mapIn.messages = <<"{", NL, QUOTE>>
    /\ mapIn.variables = JObj(<< << <<"b", QUOTE>>, JStr(<<BSLASH, NL>>) >> >>)
    /\ mapIn.setup = JNum(MaxNum)
    /\ mapOut.ok
    /\ mapOut.val.id # None
    /\ mapOut.val.variables = mapIn.variables

\* C2 as stated: fromExternal on a record that lacks one of the three entries
\* fails with MissingField, naming an entry the record lacks.
C2_MissingFieldNamed ==
    (mapOp = "fromExternal" /\ \E e \in EntryNames : Lacks(mapIn, e)) =>
        /\ Condition(mapOut) = "MissingField"
        /\ Lacks(mapIn, mapOut.entry)

\* C2, amended: the entries are read in the order playground.ftl,
\* playground.json, setup.json, each JSON-bearing one being parsed as soon as
\* it is read.  fromExternal on a record that lacks an entry (no such file, or
\* a file without content) fails, naming the first entry in that order that is
\* missing or malformed: with MissingField if that entry is missing, with
\* MalformedContent if it is there and is not valid JSON.  So a missing entry
\* is reported as MissingField exactly when every entry read before it is
\* there and, if JSON-bearing, valid.
C2_FirstFaultNamed ==
    (mapOp = "fromExternal" /\ \E e \in EntryNames : ~HasContent(mapIn, e)) =>
        /\ ~mapOut.ok
        /\ mapOut.entry = FirstFault(mapIn)
        /\ Condition(mapOut) =
               IF HasContent(mapIn, FirstFault(mapIn)) THEN "MalformedContent"
               ELSE "MissingField"

\* Only setup.json is missing, and it is the entry named.
C2_Witness ==
    /\ mapOp = "fromExternal"
    /\ Lacks(mapIn, SETUP_JSON)
    /\ ~Fault(mapIn, PLAYGROUND_FTL)
    /\ ~Fault(mapIn, PLAYGROUND_JSON)
    /\ Condition(mapOut) = "MissingField"
    /\ mapOut.entry = SETUP_JSON

\* C3: fromExternal on a record whose three entries are all there, with the
\* content of playground.json or setup.json not valid JSON, fails with
\* MalformedContent naming the first such entry; playground.ftl is never
\* parsed: no failure names it as malformed, and whatever text it holds is
\* copied when the two JSON entries are valid.
C3_MalformedContentNamed ==
    (mapOp = "fromExternal" /\ \A e \in EntryNames : HasContent(mapIn, e)) =>
        /\ (\E e \in JsonEntries : BadJson(mapIn, e)) =>
              /\ Condition(mapOut) = "MalformedContent"
              /\ mapOut.entry = FirstFault(mapIn)
              /\ mapOut.entry \in JsonEntries
        /\ (\A e \in JsonEntries : ~BadJson(mapIn, e)) =>
              /\ mapOut.ok
              /\ mapOut.val.messages = mapIn.files[PLAYGROUND_FTL].content[1]

\* playground.ftl holds text that is not JSON, playground.json is valid and
\* setup.json is not: setup.json is the entry named.
C3_Witness ==
    /\ mapOp = "fromExternal"
    /\ \A e \in EntryNames : HasContent(mapIn, e)
    /\ mapIn.files[PLAYGROUND_FTL].content[1] = <<"{", NL, QUOTE>>
    /\ ~BadJson(mapIn, PLAYGROUND_JSON)
    /\ mapIn.files[SETUP_JSON].content[1] = <<"[", "1", ",", "]">>
    /\ Condition(mapOut) = "MalformedContent"
    /\ mapOut.entry = SETUP_JSON

\* ----------------------------------------------- properties of the service
FETCH_PATH == "/gists/:id"

CREATE_PATH == "/gists"

\* The request of the slot has been routed to a handler.
Routed(s) == s.request.path # "-"

\* Handling has ended: with a response, or with a panic.
Ended(s) == s.pc \in {"done", "aborted"}

\* The snippet a well-formed body holds.
SnippetOf(body) == IF body = GoodBodyPlain THEN GoodSnippetPlain ELSE GoodSnippetWithId

\* The spec's name for the panic that ended the slot's request.
ConditionOf(s) == Condition([ok |-> FALSE, line |-> s.panic[1].line])

IsPrefix(a, b) == Len(a) <= Len(b) /\ a = SubSeq(b, 1, Len(a))

\* C4: a routed GET /gists/:id request has made exactly one fetch call and no
\* create call, a routed POST /gists request with a well-formed body exactly one
\* create call and no fetch call, one with another body no call, GET / no call,
\* and this in every state, whatever the provider answered: no call is made
\* a second time.
C4_OneProviderCall ==
    \A r \in Slots :
        LET s == req[r]
        IN  /\ s.fetches <= 1
            /\ s.creates <= 1
            /\ ~Routed(s) => s.fetches = 0 /\ s.creates = 0
            /\ s.request.path = "/" => s.fetches = 0 /\ s.creates = 0
            /\ s.request.path = FETCH_PATH => s.fetches = 1 /\ s.creates = 0
            /\ s.request.path = CREATE_PATH =>
                  /\ s.fetches = 0
                  /\ s.creates = IF s.request.body \in GoodBodies THEN 1 ELSE 0

\* A fetch whose provider call failed has ended, after one call.
C4_Witness ==
    \E r \in Slots :
        /\ req[r].pc = "aborted"
        /\ req[r].request.path = FETCH_PATH
        /\ req[r].panic[1].line = 83
        /\ req[r].fetches = 1

C6_EndsInResponse ==
    \A r \in Slots : Ended(req[r]) => req[r].response # None

\* C7: for a POST /gists with a well-formed body: the options passed to the
\* provider have exactly the entries playground.ftl (the messages),
\* playground.json (the serialized variables) and setup.json (the serialized
\* setup), the description "A Fluent Playground snippet" and public = true; and
\* once the provider has created the gist the response is 200 with the id the
\* provider assigned, not the one sent, and the request's messages, variables
\* and setup.
C7_Create ==
    \A r \in Slots :
        LET s == req[r]
            want == SnippetOf(s.request.body)
        IN  (s.request.path = CREATE_PATH /\ s.request.body \in GoodBodies) =>
                /\ s.sent # None
                /\ DOMAIN s.sent[1].files =
                       {"playground.ftl", "playground.json", "setup.json"}
                /\ s.sent[1].files["playground.ftl"].content = want.messages
                /\ s.sent[1].files["playground.json"].content = SerValue(want.variables)
                /\ s.sent[1].files["setup.json"].content = SerValue(want.setup)
                /\ s.sent[1].description = Some("A Fluent Playground snippet")
                /\ s.sent[1].public = Some(TRUE)
                /\ s.got # None =>
                      /\ s.pc = "done"
                      /\ s.got[1].id \notin DOMAIN InitStore
                      /\ Some(s.got[1].id) # want.id
                      /\ s.response[1].status = 200
                      /\ s.response[1].content_type = JSON
                      /\ FromStrValue(s.response[1].body) =
                             [ok |-> TRUE,
                              v  |-> JObj(MapFromPairs(PlaygroundJson(
                                         Playground(Some(s.got[1].id), want.messages,
                                                    want.variables, want.setup))))]

\* A create whose body carried the id of an existing gist was answered.
C7_Witness ==
    \E r \in Slots :
        /\ req[r].pc = "done"
        /\ req[r].request.path = CREATE_PATH
        /\ req[r].request.body = GoodBodyWithId
        /\ req[r].got[1].id = NewId(1)
        /\ req[r].response[1].status = 200

\* Payloads for json_response: the two structs the handlers pass, and one
\* whose serialization fails.
ResponsePayloads ==
    {Payload(IndexJson), Unserializable,
     Payload(PlaygroundJson(GoodSnippetPlain)),
     Payload(PlaygroundJson(GoodSnippetWithId))}

\* The JSON value of the fixed error body.
ErrorValue ==
    JObj(<< << <<"e", "r", "r", "o", "r">>,
               JStr(<<"E", "r", "r", "o", "r", " ", "s", "e", "r", "i", "a", "l", "i",
                      "z", "i", "n", "g", " ", "r", "e", "s", "p", "o", "n", "s",
                      "e">>) >> >>)

\* json_response on each payload: always a response, of content type JSON;
\* 200 with the serialized payload, or 500 with the fixed error body.
JsonResponseOnPayloads ==
    \A p \in ResponsePayloads :
        LET res == json_response(p)
        IN  /\ res.ok
            /\ res.val.content_type = "application/json"
            /\ IF p.serializable
               THEN /\ res.val.status = 200
                    /\ FromStrValue(res.val.body) =
                           [ok |-> TRUE, v |-> JObj(MapFromPairs(p.members))]
               ELSE /\ res.val.status = 500
                    /\ FromStrValue(res.val.body) = [ok |-> TRUE, v |-> ErrorValue]

\* C8: json_response always returns a response: 200 with content type JSON
\* and the serialized payload when serialization succeeds, 500 with content
\* type JSON and the body {"error": "Error serializing response"} when it
\* fails; and every response of the service is one of the two, a request that
\* ended in any other failure having no response at all.
C8_JsonResponse ==
    /\ JsonResponseOnPayloads
    /\ \A r \in Slots :
          /\ req[r].response # None =>
                /\ req[r].response[1].content_type = "application/json"
                /\ \/ /\ req[r].response[1].status = 200
                      /\ FromStrValue(req[r].response[1].body).ok
                   \/ /\ req[r].response[1].status = 500
                      /\ req[r].response[1].body = ERROR_BODY
          /\ req[r].pc = "aborted" => req[r].response = None

\* A fetch was answered with 200 and a JSON body.
C8_Witness ==
    \E r \in Slots :
        /\ req[r].pc = "done"
        /\ req[r].request.path = FETCH_PATH
        /\ req[r].response[1].status = 200
        /\ FromStrValue(req[r].response[1].body).ok

\* C9: a POST /gists whose body is not JSON, or lacks messages, variables or
\* setup, ends with BadRequest before any provider call: no create call was
\* made for it, nothing was sent and nothing came back; a create call is only
\* ever made for a well-formed body, and every gist the provider created holds
\* the messages of one.
C9_ParseBeforeCreate ==
    /\ \A r \in Slots :
          LET s == req[r]
          IN  s.request.path = CREATE_PATH =>
                  /\ s.request.body \in BadBodies =>
                        /\ s.pc = "aborted"
                        /\ ConditionOf(s) = "BadRequest"
                        /\ s.creates = 0
                        /\ s.sent = None
                        /\ s.got = None
                  /\ s.creates > 0 => s.request.body \in GoodBodies
    /\ \A id \in (DOMAIN store) \ (DOMAIN InitStore) :
          \E b \in GoodBodies :
              store[id].files[PLAYGROUND_FTL].content = Some(SnippetOf(b).messages)

\* A create whose body lacks setup has ended with BadRequest and no call.
C9_Witness ==
    \E r \in Slots :
        /\ req[r].pc = "aborted"
        /\ req[r].request.body = BodyWithout(K_setup)
        /\ req[r].panic[1].line = 92
        /\ req[r].creates = 0

\* The stages of every request are a prefix of `order`; the gist client is in
\* the request whenever playground_get or playground_create runs; it is the
\* one built at startup, and it never changes.
PipelineOrder(order) ==
    /\ gists = GistsClient
    /\ \A r \in Slots :
          LET s == req[r]
          IN  /\ IsPrefix(s.stages, order)
              /\ s.ext \in {None, Some(GistsClient)}
              /\ s.request.path \in {FETCH_PATH, CREATE_PATH} => s.ext = Some(GistsClient)
              /\ s.panic # None => s.panic[1].line \notin {76, 88}

\* C10 as stated: the stages run in the order CORS, injection of the gist
\* client, dispatch; the client is in the request when the handlers run, is
\* the single instance built at startup and is never changed.
C10_CorsFirst == PipelineOrder(<<"cors", "inject", "dispatch">>)

\* C10, amended: the stages run in the order injection of the gist client,
\* CORS, dispatch (the before middleware run ahead of the handler that
\* link_around wrapped); the client is in the request when playground_get or
\* playground_create runs, is the single instance built at startup and is
\* never changed, in any interleaving of concurrent requests.
C10_InjectFirst == PipelineOrder(<<"inject", "cors", "dispatch">>)

\* Two requests are in their provider calls at once, with the same client.
C10_Witness ==
    /\ req[1].pc = "await_fetch"
    /\ req[2].pc = "await_create"
    /\ req[1].ext = Some(gists)
    /\ req[2].ext = Some(gists)
    /\ req[1].stages = <<"inject", "cors", "dispatch">>

====
